---- MODULE Spec2Model ----
(***************************************************************************)
(* Pre-activation residual networks (chapter03-advanced-cnn-models/        *)
(* resnet.ipynb): the shape algebra of the two residual blocks, the        *)
(* assembly of a PreActivationResNet from four block counts and its        *)
(* forward pass, and the train_model / test_model passes.                  *)
(*                                                                         *)
(* Tensors are modelled by their shapes (batch n, channels c, height h,    *)
(* width w); a call that raises is the shape Err.  Losses are integers     *)
(* (a fixed-point scale of loss.item()), ratios are kept as numerator and  *)
(* denominator.                                                            *)
(***************************************************************************)
EXTENDS Integers, Sequences, FiniteSets, TLC

\* ------------------------------------------------------------------ bounds
MaxCh == 4          \* channel counts of a single block range over 1..MaxCh
MaxSide == 5        \* spatial sides of a single block's input: 1..MaxSide
MaxStride == 3      \* strides of a single block: 1..MaxStride
MaxN == 2           \* batch dimension of a tensor: 1..MaxN
MaxBlocks == 2      \* block counts of a generated num_blocks: 1 or MaxBlocks
LenSlack == 1       \* generated num_blocks have 4 - LenSlack .. 4 + LenSlack entries
MaxOct == 8         \* forward is called on sides 8k-1, 8k, 8k+1 for k in 1..MaxOct
MaxData == 3        \* len(data_loader.dataset) ranges over 0..MaxData
MaxBatch == 2       \* the loader's batch_size ranges over 1..MaxBatch
MaxLoss == 1        \* a batch's mean loss, in fixed point, ranges over 0..MaxLoss
MaxPasses == 2      \* at most MaxPasses calls of train_model / test_model
MaxNeg == 2         \* _make_group alone: num_blocks ranges over -MaxNeg..MaxBlocks
MaxConcBatches == 2 \* two concurrent passes: each loader has 1..MaxConcBatches batches
EPOCHS == 3         \* the epoch loop runs EPOCHS times (15 in the notebook)

\* ------------------------------------------------------------------ constants
StemWidth == 64     \* self.in_slices = 64, the out_channels of conv_1
NumClasses == 10    \* the default of num_classes
PoolKernel == 4     \* F.avg_pool2d(out, 4)

\* ------------------------------------------------------------------ tensors
Err == [ok |-> FALSE, n |-> 0, c |-> 0, h |-> 0, w |-> 0]

Shape(n, c, h, w) == [ok |-> TRUE, n |-> n, c |-> c, h |-> h, w |-> w]

SameShape(a, b) == a.ok /\ b.ok /\ a.n = b.n /\ a.c = b.c /\ a.h = b.h /\ a.w = b.w

\* ------------------------------------------------------------------ layers
\* nn.Conv2d(in_channels, out_channels, kernel_size, stride, padding, bias=False)
Conv2d(in_channels, out_channels, kernel_size, stride, padding) ==
    [in_channels |-> in_channels, out_channels |-> out_channels,
     kernel_size |-> kernel_size, stride |-> stride, padding |-> padding]

\* one spatial side after a convolution or a pooling window
ConvSide(side, k, s, p) == ((side + 2 * p - k) \div s) + 1

\* conv(x): raises on a channel mismatch or a kernel larger than the padded input
Conv2dForward(conv, x) ==
    IF ~x.ok THEN Err
    ELSE IF x.c # conv.in_channels THEN Err
    ELSE IF x.h + 2 * conv.padding < conv.kernel_size
            \/ x.w + 2 * conv.padding < conv.kernel_size THEN Err
    ELSE Shape(x.n, conv.out_channels,
               ConvSide(x.h, conv.kernel_size, conv.stride, conv.padding),
               ConvSide(x.w, conv.kernel_size, conv.stride, conv.padding))

\* F.relu(bn(x)): shape preserving; raises on a channel mismatch and, in
\* training mode, when there is a single value per channel
BnRelu(num_features, x, training) ==
    IF ~x.ok THEN Err
    ELSE IF x.c # num_features THEN Err
    ELSE IF training /\ x.n * x.h * x.w = 1 THEN Err
    ELSE x

\* out += shortcut: raises unless the two shapes are identical
AddShortcut(out, shortcut) == IF SameShape(out, shortcut) THEN out ELSE Err

\* ------------------------------------------------------------------ blocks
Variants == {"PreActivationBlock", "PreActivationBottleneckBlock"}

\* the class attribute `expansion`
Expansion(variant) == IF variant = "PreActivationBlock" THEN 1 ELSE 4

HasAttr(obj, name) == name \in DOMAIN obj

\* a plausible slip: the projection is created on a stride change only
NeedsShortcutStrideOnly(expansion, in_slices, slices, stride) ==
    stride # 1

\* the condition under which __init__ sets self.shortcut
NeedsShortcut(expansion, in_slices, slices, stride) ==
    stride # 1 \/ in_slices # expansion * slices

\* a plausible slip: the projection is not given the block's stride
ShortcutAttrNoStride(expansion, in_slices, slices, stride) ==
    IF NeedsShortcut(expansion, in_slices, slices, stride)
    THEN [shortcut |-> <<Conv2d(in_slices, expansion * slices, 1, 1, 0)>>]
    ELSE <<>>

\* self.shortcut = nn.Sequential(nn.Conv2d(in_slices, expansion * slices, 1, stride))
ShortcutAttr(expansion, in_slices, slices, stride) ==
    IF NeedsShortcut(expansion, in_slices, slices, stride)
    THEN [shortcut |-> <<Conv2d(in_slices, expansion * slices, 1, stride, 0)>>]
    ELSE <<>>

\* a plausible slip: the second 3x3 convolution is given no padding
PreActivationBlockNoPad(in_slices, slices, stride) ==
    [variant |-> "PreActivationBlock", expansion |-> 1,
     in_slices |-> in_slices, slices |-> slices, stride |-> stride,
     bn_1 |-> in_slices,
     conv_1 |-> Conv2d(in_slices, slices, 3, stride, 1),
     bn_2 |-> slices,
     conv_2 |-> Conv2d(slices, slices, 3, 1, 0)]
    @@ ShortcutAttr(1, in_slices, slices, stride)

\* PreActivationBlock.__init__
PreActivationBlock(in_slices, slices, stride) ==
    [variant |-> "PreActivationBlock", expansion |-> 1,
     in_slices |-> in_slices, slices |-> slices, stride |-> stride,
     bn_1 |-> in_slices,
     conv_1 |-> Conv2d(in_slices, slices, 3, stride, 1),
     bn_2 |-> slices,
     conv_2 |-> Conv2d(slices, slices, 3, 1, 1)]
    @@ ShortcutAttr(1, in_slices, slices, stride)

\* PreActivationBottleneckBlock.__init__
PreActivationBottleneckBlock(in_slices, slices, stride) ==
    [variant |-> "PreActivationBottleneckBlock", expansion |-> 4,
     in_slices |-> in_slices, slices |-> slices, stride |-> stride,
     bn_1 |-> in_slices,
     conv_1 |-> Conv2d(in_slices, slices, 1, 1, 0),
     bn_2 |-> slices,
     conv_2 |-> Conv2d(slices, slices, 3, stride, 1),
     bn_3 |-> slices,
     conv_3 |-> Conv2d(slices, 4 * slices, 1, 1, 0)]
    @@ ShortcutAttr(4, in_slices, slices, stride)

\* block(in_slices, slices, stride) for the class object `block`
NewBlock(variant, in_slices, slices, stride) ==
    IF variant = "PreActivationBlock"
    THEN PreActivationBlock(in_slices, slices, stride)
    ELSE PreActivationBottleneckBlock(in_slices, slices, stride)

\* the first statements of forward, shared by both classes:
\*   out = F.relu(self.bn_1(x))
\*   shortcut = self.shortcut(out) if hasattr(self, 'shortcut') else x
PreAct(b, x, training) == BnRelu(b.bn_1, x, training)

ShortcutOf(b, x, training) ==
    IF ~PreAct(b, x, training).ok THEN Err
    ELSE IF HasAttr(b, "shortcut")
         THEN Conv2dForward(b.shortcut[1], PreAct(b, x, training))
         ELSE x

\* the main path up to, not including, the addition
MainPath(b, x, training) ==
    LET out1 == Conv2dForward(b.conv_1, PreAct(b, x, training))
        out2 == Conv2dForward(b.conv_2, BnRelu(b.bn_2, out1, training))
    IN  IF b.variant = "PreActivationBlock" THEN out2
        ELSE Conv2dForward(b.conv_3, BnRelu(b.bn_3, out2, training))

\* forward(x) of either block
BlockForward(b, x, training) ==
    IF ~ShortcutOf(b, x, training).ok THEN Err
    ELSE AddShortcut(MainPath(b, x, training), ShortcutOf(b, x, training))

\* ---- the dataflow of forward: which value each statement reads
\* A value is the chain of layers applied to the block input, outermost first,
\* ending in "x"; calls lists the layer invocations in program order.
InputValue == <<"x">>

\* out = F.relu(self.bn_1(x))
FirstActivation(x) == <<"relu", "bn_1">> \o x

\* a plausible slip: the projection is applied to the block input
ShortcutValueOfInput(b, x, out) ==
    IF HasAttr(b, "shortcut") THEN <<"shortcut">> \o x ELSE x

\* shortcut = self.shortcut(out) if hasattr(self, 'shortcut') else x
ShortcutValue(b, x, out) ==
    IF HasAttr(b, "shortcut") THEN <<"shortcut">> \o out ELSE x

\* the statements between the shortcut and the addition
MainValue(b, out) ==
    IF b.variant = "PreActivationBlock"
    THEN <<"conv_2", "relu", "bn_2", "conv_1">> \o out
    ELSE <<"conv_3", "relu", "bn_3", "conv_2", "relu", "bn_2", "conv_1">> \o out

MainCalls(b) ==
    IF b.variant = "PreActivationBlock"
    THEN <<"conv_1", "bn_2", "relu", "conv_2">>
    ELSE <<"conv_1", "bn_2", "relu", "conv_2", "bn_3", "relu", "conv_3">>

\* forward(x) of either block, as dataflow
ForwardFlow(b) ==
    LET out == FirstActivation(InputValue)
        shortcut == ShortcutValue(b, InputValue, out)
        main == MainValue(b, out)
    IN  [first |-> out,
         shortcut |-> shortcut,
         main |-> main,
         out |-> [op |-> "add", left |-> main, right |-> shortcut],
         calls |-> <<"bn_1", "relu">>
                   \o (IF HasAttr(b, "shortcut") THEN <<"shortcut">> ELSE <<>>)
                   \o MainCalls(b)]

\* ------------------------------------------------------------------ network
\* nn.Linear(in_features, out_features)
Linear(in_features, out_features) ==
    [in_features |-> in_features, out_features |-> out_features]

\* a 2-D tensor (n, f) is kept as the shape (n, f, 1, 1)
Shape2(n, f) == Shape(n, f, 1, 1)

\* a plausible slip: every block of the group is given the group's stride
GroupStridesAll(stride, num_blocks) == [i \in 1..num_blocks |-> stride]

\* strides = [stride] + [1] * (num_blocks - 1); a list times a number <= 0 is []
GroupStrides(stride, num_blocks) == <<stride>> \o [i \in 1..(num_blocks - 1) |-> 1]

\* a plausible slip: self.in_slices = slices, the expansion forgotten
NextInSlicesNoExpansion(variant, slices) == slices

\* self.in_slices = slices * block.expansion
NextInSlices(variant, slices) == slices * Expansion(variant)

\* the loop of _make_group over the remaining strides; acc is
\* [layers |-> the blocks appended so far, in_slices |-> self.in_slices]
RECURSIVE MakeGroupLoop(_, _, _, _)
MakeGroupLoop(variant, slices, strides, acc) ==
    IF strides = <<>> THEN acc
    ELSE MakeGroupLoop(variant, slices, Tail(strides),
            [layers |-> Append(acc.layers,
                               NewBlock(variant, acc.in_slices, slices, Head(strides))),
             in_slices |-> NextInSlices(variant, slices)])

\* _make_group(block, slices, num_blocks, stride) called with self.in_slices =
\* in_slices: the nn.Sequential it returns and self.in_slices afterwards
MakeGroup(variant, in_slices, slices, num_blocks, stride) ==
    MakeGroupLoop(variant, slices, GroupStrides(stride, num_blocks),
                  [layers |-> <<>>, in_slices |-> in_slices])

\* nn.Sequential(*layers)(x)
RECURSIVE SequentialForward(_, _, _)
SequentialForward(layers, x, training) ==
    IF layers = <<>> THEN x
    ELSE LET out == BlockForward(Head(layers), x, training)
         IN  IF out.ok THEN SequentialForward(Tail(layers), out, training)
             ELSE Err

\* a plausible slip: the pooling window moves with stride 1
AvgPool2dStride1(x, kernel_size) ==
    IF ~x.ok THEN Err
    ELSE IF x.h < kernel_size \/ x.w < kernel_size THEN Err
    ELSE Shape(x.n, x.c, ConvSide(x.h, kernel_size, 1, 0),
               ConvSide(x.w, kernel_size, 1, 0))

\* F.avg_pool2d(x, kernel_size): the stride defaults to the kernel size, no
\* padding; raises when the input is smaller than the window
AvgPool2d(x, kernel_size) ==
    IF ~x.ok THEN Err
    ELSE IF x.h < kernel_size \/ x.w < kernel_size THEN Err
    ELSE Shape(x.n, x.c, ConvSide(x.h, kernel_size, kernel_size, 0),
               ConvSide(x.w, kernel_size, kernel_size, 0))

\* out.view(out.size(0), -1)
Flatten(x) == IF ~x.ok THEN Err ELSE Shape2(x.n, x.c * x.h * x.w)

\* self.linear(out): raises unless the row length is in_features
LinearForward(lin, x) ==
    IF ~x.ok THEN Err
    ELSE IF x.c # lin.in_features THEN Err
    ELSE Shape2(x.n, lin.out_features)

\* the widths and first strides of layer_1 .. layer_4
GroupSlices == <<64, 128, 256, 512>>

\* a plausible slip: the first group is given stride 2 like the others
GroupStrideAllTwo == <<2, 2, 2, 2>>

GroupStride == <<1, 2, 2, 2>>

\* the five named configurations
PreActivationResNet18 == [block |-> "PreActivationBlock", num_blocks |-> <<2, 2, 2, 2>>]

PreActivationResNet34 == [block |-> "PreActivationBlock", num_blocks |-> <<3, 4, 6, 3>>]

PreActivationResNet50 ==
    [block |-> "PreActivationBottleneckBlock", num_blocks |-> <<3, 4, 6, 3>>]

PreActivationResNet101 ==
    [block |-> "PreActivationBottleneckBlock", num_blocks |-> <<3, 4, 23, 3>>]

PreActivationResNet152 ==
    [block |-> "PreActivationBottleneckBlock", num_blocks |-> <<3, 8, 36, 3>>]

Presets == {PreActivationResNet18, PreActivationResNet34, PreActivationResNet50,
            PreActivationResNet101, PreActivationResNet152}

\* ------------------------------------------------------------------ passes
\* torch.utils.data.DataLoader(dataset, batch_size, ...): the number of batches
\* one iteration yields, and the size of the i-th of them
NumBatches(loader) ==
    IF loader.drop_last THEN loader.dataset_len \div loader.batch_size
    ELSE (loader.dataset_len + loader.batch_size - 1) \div loader.batch_size

BatchLen(loader, i) ==
    IF loader.dataset_len - (i - 1) * loader.batch_size < loader.batch_size
    THEN loader.dataset_len - (i - 1) * loader.batch_size
    ELSE loader.batch_size

Loaders == [dataset_len : 0..MaxData, batch_size : 1..MaxBatch, drop_last : BOOLEAN]

\* a plausible slip: test_model calls model.train() as train_model does
ModeAlwaysTrain(kind) == TRUE

\* the mode set at the top of the pass: model.train() / model.eval()
ModeOf(kind) == kind = "train"

\* with torch.set_grad_enabled(True) in train_model, (False) in test_model
GradMode(kind) == kind = "train"

\* a plausible slip: the evaluate pass keeps the train pass's backward and step
AfterLossAlwaysBackward(kind) == "backward"

\* the statement that follows the loss computation: loss.backward() in
\* train_model, the statistics in test_model
AfterLoss(kind) == IF kind = "train" THEN "backward" ELSE "stats"

\* a plausible slip: the iteration advances by two, every other batch is skipped
NextIndexSkipping(i) == i + 2

\* enumerate(data_loader) advances to the next batch
NextIndex(i) == i + 1

\* a plausible slip: the gradients are not cleared before the forward computation
AfterFetchNoZeroGrad(kind) == "forward"

\* the statement that follows the fetch of a batch: optimizer.zero_grad() in
\* train_model, the forward computation in test_model
AfterFetch(kind) == IF kind = "train" THEN "zero_grad" ELSE "forward"

\* a plausible slip: the batch size is left out of the weighting
AddLossUnweighted(current_loss, loss, size) == current_loss + loss

\* current_loss += loss.item() * inputs.size(0)
AddLoss(current_loss, loss, size) == current_loss + loss * size

\* a plausible slip: the wrong predictions are counted against the total
AddAccSigned(current_acc, correct) == current_acc + correct - 1

\* current_acc += torch.sum(predictions == labels.data)
AddAcc(current_acc, correct) == current_acc + correct

\* a local that is not bound (before its first assignment, after the return)
Unbound == 0 - 1

VARIABLES
    b_args,     \* the arguments (variant, in_slices, slices, stride) of a block
    b_obj,      \* <<>> before construction, <<block>> after
    b_x,        \* the tensor handed to the block
    b_training, \* the block's nn.Module.training flag
    b_out,      \* <<>> before forward, <<result>> after
    b_cut,      \* <<>> before forward, <<shortcut tensor>> after
    b_flow,     \* <<>>, or <<the dataflow of a forward that returned>>
    n_args,     \* PreActivationResNet(block, num_blocks): the arguments
    n_pc,       \* "new", "groups", "built", or "raised" (the constructor raised)
    n_in_slices,\* self.in_slices
    n_conv_1,   \* <<>> or <<self.conv_1>>
    n_layers,   \* <<self.layer_1, ...>> as far as they are built
    n_linear,   \* <<>> or <<self.linear>>
    f_pc,       \* forward: "idle", "run", "done" or "raised"
    f_x,        \* forward's argument x
    f_training, \* the network's nn.Module.training flag during forward
    f_outs,     \* the successive values of forward's local `out`
    m_training, \* model.training
    m_params,   \* the model's parameters: the number of updates applied to them
    m_buffers,  \* the normalization statistics: the number of training-mode forwards
    m_grads,    \* the parameters' .grad: "none", "zero" or "batch"
    o_steps,    \* the optimizer's internal state: the number of step() calls
    l_pc,       \* the statement a pass is at; "idle" between passes
    l_kind,     \* "train" (train_model) or "test" (test_model)
    l_loader,   \* the data_loader argument
    l_index,    \* the number of batches fetched from the iterator
    l_batch,    \* the current batch: its size, mean loss, correct predictions, graph
    l_current_loss, \* the local current_loss
    l_current_acc,  \* the local current_acc
    l_total,    \* <<>> or <<[loss, acc, den]>>: total_loss = loss/den, total_acc = acc/den
    l_hist,     \* the batches this pass has gone through, in order
    l_passes    \* the number of passes called so far

VARIABLES
    g_args,     \* _make_group(block, slices, num_blocks, stride) and self.in_slices
    g_out,      \* <<>> before the call, <<[layers, in_slices]>> after
    c_pc,       \* two concurrent train passes: the statement each is at
    c_n,        \* the number of batches of each pass's loader
    c_index,    \* the batch each pass is at
    c_grads,    \* the .grad of the shared parameters: the set of <<pass, batch>>
                \* whose backward has accumulated into it since it was cleared
    c_params,   \* the number of updates applied to the shared parameters
    c_last,     \* <<>> or <<[by, batch, grads]>>: the latest optimizer.step()
    c_overlap,  \* history: TRUE once both passes have been running at once
    d_pc,       \* the epoch loop: the statement it is at
    d_epoch,    \* the loop variable epoch
    test_acc,   \* the list test_acc
    d_log,      \* history: the passes called so far, in order
    d_plotted   \* <<>> or <<the sequence handed to plot_accuracy>>

bvars == <<b_args, b_obj, b_x, b_training, b_out, b_cut, b_flow>>

nvars == <<n_args, n_pc, n_in_slices, n_conv_1, n_layers, n_linear,
           f_pc, f_x, f_training, f_outs>>

lvars == <<m_training, m_params, m_buffers, m_grads, o_steps, l_pc, l_kind,
           l_loader, l_index, l_batch, l_current_loss, l_current_acc, l_total,
           l_hist, l_passes>>

gvars == <<g_args, g_out>>

cvars == <<c_pc, c_n, c_index, c_grads, c_params, c_last, c_overlap>>

dvars == <<d_pc, d_epoch, test_acc, d_log, d_plotted>>

xvars == <<gvars, cvars, dvars>>

vars == <<bvars, nvars, lvars, xvars>>

NoLoader == [dataset_len |-> 0, batch_size |-> 1, drop_last |-> FALSE]

\* index and updates are history: the batch's position in the iteration and
\* the number of optimizer updates applied while it was the current batch
NoBatch == [size |-> 0, loss |-> 0, correct |-> 0, graph |-> FALSE,
            index |-> 0, updates |-> 0]

\* the state before the first pass: a fresh model (nn.Module starts in training
\* mode, its parameters have no gradients) and a fresh optimizer
LoopStart ==
    /\ m_training = TRUE
    /\ m_params = 0
    /\ m_buffers = 0
    /\ m_grads = "none"
    /\ o_steps = 0
    /\ l_pc = "idle"
    /\ l_kind = "train"
    /\ l_loader = NoLoader
    /\ l_index = 0
    /\ l_batch = NoBatch
    /\ l_current_loss = Unbound
    /\ l_current_acc = Unbound
    /\ l_total = <<>>
    /\ l_hist = <<>>
    /\ l_passes = 0

\* the variables of a part that a specification does not exercise
BlockUnused ==
    /\ b_args = [variant |-> "PreActivationBlock", in_slices |-> 1,
                 slices |-> 1, stride |-> 1]
    /\ b_x = Err
    /\ b_training = FALSE
    /\ b_obj = <<>>
    /\ b_out = <<>>
    /\ b_cut = <<>>
    /\ b_flow = <<>>

GroupUnused ==
    /\ g_args = [variant |-> "PreActivationBlock", in_slices |-> 1, slices |-> 1,
                 num_blocks |-> 1, stride |-> 1]
    /\ g_out = <<>>

ConcUnused ==
    /\ c_pc = [p \in 1..2 |-> "idle"]
    /\ c_n = [p \in 1..2 |-> 0]
    /\ c_index = [p \in 1..2 |-> 0]
    /\ c_grads = {}
    /\ c_params = 0
    /\ c_last = <<>>
    /\ c_overlap = FALSE

DriverUnused ==
    /\ d_pc = "idle"
    /\ d_epoch = 0
    /\ test_acc = <<>>
    /\ d_log = <<>>
    /\ d_plotted = <<>>

NetUnused ==
    /\ n_args = PreActivationResNet18
    /\ n_pc = "new"
    /\ n_in_slices = 0
    /\ n_conv_1 = <<>>
    /\ n_layers = <<>>
    /\ n_linear = <<>>
    /\ f_pc = "idle"
    /\ f_x = Err
    /\ f_training = FALSE
    /\ f_outs = <<>>

\* ------------------------------------------------------------------ one block
BlockInit ==
    /\ b_args \in [variant : Variants, in_slices : 1..MaxCh,
                   slices : 1..MaxCh, stride : 1..MaxStride]
    /\ b_x \in {Shape(n, c, h, w) : n \in 1..MaxN, c \in {1, MaxCh},
                                    h \in 1..MaxSide, w \in {1, MaxSide}}
    /\ b_training \in BOOLEAN
    /\ b_obj = <<>>
    /\ b_out = <<>>
    /\ b_cut = <<>>
    /\ b_flow = <<>>
    /\ NetUnused
    /\ LoopStart
    /\ GroupUnused /\ ConcUnused /\ DriverUnused

BlockConstruct ==
    /\ b_obj = <<>>
    /\ b_obj' = <<NewBlock(b_args.variant, b_args.in_slices, b_args.slices,
                           b_args.stride)>>
    /\ UNCHANGED <<b_args, b_x, b_training, b_out, b_cut, b_flow, nvars, lvars, xvars>>

BlockCall ==
    /\ b_obj # <<>>
    /\ b_out = <<>>
    /\ b_out' = <<BlockForward(b_obj[1], b_x, b_training)>>
    /\ b_cut' = <<ShortcutOf(b_obj[1], b_x, b_training)>>
    /\ b_flow' = IF BlockForward(b_obj[1], b_x, b_training).ok
                 THEN <<ForwardFlow(b_obj[1])>>
                 ELSE <<>>
    /\ UNCHANGED <<b_args, b_obj, b_x, b_training, nvars, lvars, xvars>>

BlockNext == BlockConstruct \/ BlockCall

SpecBlock == BlockInit /\ [][BlockNext]_vars

\* ------------------------------------------------------------------ the network
\* num_blocks sequences of length 4 - LenSlack .. 4 + LenSlack
NumBlocksInputs ==
    UNION {[1..len -> {1, MaxBlocks}] : len \in (4 - LenSlack)..(4 + LenSlack)}

\* the sides h of the inputs (n, 3, h, h) handed to forward; 32 is CIFAR-10's
InputSides == UNION {{8 * k - 1, 8 * k, 8 * k + 1} : k \in 1..MaxOct}

NetInit ==
    /\ n_args \in Presets \cup [block : Variants, num_blocks : NumBlocksInputs]
    /\ n_pc = "new"
    /\ n_in_slices = 0
    /\ n_conv_1 = <<>>
    /\ n_layers = <<>>
    /\ n_linear = <<>>
    /\ f_pc = "idle"
    /\ f_x = Err
    /\ f_training = FALSE
    /\ f_outs = <<>>
    /\ BlockUnused
    /\ LoopStart
    /\ GroupUnused /\ ConcUnused /\ DriverUnused

\* __init__: self.in_slices = 64; self.conv_1 = nn.Conv2d(3, 64, 3, 1, 1)
NetStem ==
    /\ n_pc = "new"
    /\ n_in_slices' = StemWidth
    /\ n_conv_1' = <<Conv2d(3, StemWidth, 3, 1, 1)>>
    /\ n_pc' = "groups"
    /\ UNCHANGED <<n_args, n_layers, n_linear, f_pc, f_x, f_training,
                   f_outs, bvars, lvars, xvars>>

\* __init__: self.layer_i = self._make_group(block, slices_i, num_blocks[i-1], stride_i)
NetMakeGroup ==
    /\ n_pc = "groups"
    /\ Len(n_layers) < 4
    /\ LET i == Len(n_layers) + 1
       IN  IF i > Len(n_args.num_blocks)
           THEN \* num_blocks[i-1] raises IndexError
                /\ n_pc' = "raised"
                /\ UNCHANGED <<n_in_slices, n_layers>>
           ELSE LET g == MakeGroup(n_args.block, n_in_slices, GroupSlices[i],
                                   n_args.num_blocks[i], GroupStride[i])
                IN  /\ n_layers' = Append(n_layers, g.layers)
                    /\ n_in_slices' = g.in_slices
                    /\ n_pc' = n_pc
    /\ UNCHANGED <<n_args, n_conv_1, n_linear, f_pc, f_x, f_training, f_outs, bvars, lvars, xvars>>

\* __init__: self.linear = nn.Linear(512 * block.expansion, num_classes)
NetLinear ==
    /\ n_pc = "groups"
    /\ Len(n_layers) = 4
    /\ n_linear' = <<Linear(512 * Expansion(n_args.block), NumClasses)>>
    /\ n_pc' = "built"
    /\ UNCHANGED <<n_args, n_in_slices, n_conv_1, n_layers, f_pc, f_x,
                   f_training, f_outs, bvars, lvars, xvars>>

\* model(x) on a built network, in training or in evaluation mode
NetCall ==
    /\ n_pc = "built"
    /\ f_pc = "idle"
    /\ \E n \in {1, MaxN}, h \in InputSides :
           f_x' = Shape(n, 3, h, h)
    /\ f_training' \in BOOLEAN
    /\ f_pc' = "run"
    /\ f_outs' = <<>>
    /\ UNCHANGED <<n_args, n_pc, n_in_slices, n_conv_1, n_layers,
                   n_linear, bvars, lvars, xvars>>

\* one statement of forward assigns `out`, or raises
ForwardAssign(out) ==
    /\ IF out.ok
       THEN /\ f_outs' = Append(f_outs, out)
            /\ f_pc' = IF Len(f_outs) = 7 THEN "done" ELSE "run"
       ELSE /\ f_outs' = f_outs
            /\ f_pc' = "raised"
    /\ UNCHANGED <<n_args, n_pc, n_in_slices, n_conv_1, n_layers,
                   n_linear, f_x, f_training, bvars, lvars, xvars>>

\* out = self.conv_1(x)
ForwardConv1 ==
    /\ f_pc = "run" /\ Len(f_outs) = 0
    /\ ForwardAssign(Conv2dForward(n_conv_1[1], f_x))

\* out = self.layer_i(out), i = 1..4
ForwardLayer ==
    /\ f_pc = "run" /\ Len(f_outs) \in 1..4
    /\ ForwardAssign(SequentialForward(n_layers[Len(f_outs)], f_outs[Len(f_outs)],
                                       f_training))

\* out = F.avg_pool2d(out, 4)
ForwardPool ==
    /\ f_pc = "run" /\ Len(f_outs) = 5
    /\ ForwardAssign(AvgPool2d(f_outs[5], PoolKernel))

\* out = out.view(out.size(0), -1)
ForwardView ==
    /\ f_pc = "run" /\ Len(f_outs) = 6
    /\ ForwardAssign(Flatten(f_outs[6]))

\* out = self.linear(out)
ForwardLinear ==
    /\ f_pc = "run" /\ Len(f_outs) = 7
    /\ ForwardAssign(LinearForward(n_linear[1], f_outs[7]))

NetNext ==
    \/ NetStem \/ NetMakeGroup \/ NetLinear \/ NetCall
    \/ ForwardConv1 \/ ForwardLayer \/ ForwardPool \/ ForwardView \/ ForwardLinear

SpecNet == NetInit /\ [][NetNext]_vars

\* ------------------------------------------------------------------ the passes
\* a plausible slip: the accumulators are not reset at the top of the pass
StartAccumulatorsKept ==
    [current_loss |-> l_current_loss, current_acc |-> l_current_acc]

\* current_loss = 0.0; current_acc = 0
StartAccumulators == [current_loss |-> 0, current_acc |-> 0]

LoopInit ==
    /\ LoopStart /\ BlockUnused /\ NetUnused
    /\ GroupUnused /\ ConcUnused /\ DriverUnused

\* train_model(model, loss_function, optimizer, data_loader) or
\* test_model(model, loss_function, data_loader) is called
PassCall ==
    /\ l_pc = "idle"
    /\ l_passes < MaxPasses
    /\ l_kind' \in {"train", "test"}
    /\ l_loader' \in Loaders
    /\ l_passes' = l_passes + 1
    /\ l_pc' = "mode"
    /\ UNCHANGED <<m_training, m_params, m_buffers, m_grads, o_steps, l_index,
                   l_batch, l_current_loss, l_current_acc, l_total, l_hist,
                   bvars, nvars, xvars>>

\* model.train() / model.eval()
PassSetMode ==
    /\ l_pc = "mode"
    /\ m_training' = ModeOf(l_kind)
    /\ l_pc' = "init"
    /\ UNCHANGED <<m_params, m_buffers, m_grads, o_steps, l_kind, l_loader,
                   l_index, l_batch, l_current_loss, l_current_acc, l_total,
                   l_hist, l_passes, bvars, nvars, xvars>>

\* current_loss = 0.0; current_acc = 0, and the iterator over data_loader is made
PassInit ==
    /\ l_pc = "init"
    /\ l_current_loss' = StartAccumulators.current_loss
    /\ l_current_acc' = StartAccumulators.current_acc
    /\ l_index' = 0
    /\ l_hist' = <<>>
    /\ l_pc' = "fetch"
    /\ UNCHANGED <<m_training, m_params, m_buffers, m_grads, o_steps, l_kind,
                   l_loader, l_batch, l_total, l_passes, bvars, nvars, xvars>>

\* for i, (inputs, labels) in enumerate(data_loader): the next batch, or the
\* end of the loop
PassFetch ==
    /\ l_pc = "fetch"
    /\ IF l_index < NumBatches(l_loader)
       THEN /\ l_index' = NextIndex(l_index)
            /\ l_batch' = [NoBatch EXCEPT
                               !.size = BatchLen(l_loader, NextIndex(l_index)),
                               !.index = NextIndex(l_index)]
            /\ l_pc' = AfterFetch(l_kind)
       ELSE /\ l_pc' = "totals"
            /\ UNCHANGED <<l_index, l_batch>>
    /\ UNCHANGED <<m_training, m_params, m_buffers, m_grads, o_steps, l_kind,
                   l_loader, l_current_loss, l_current_acc, l_total, l_hist,
                   l_passes, bvars, nvars, xvars>>

\* optimizer.zero_grad(): gradients that exist are zeroed
PassZeroGrad ==
    /\ l_pc = "zero_grad"
    /\ m_grads' = IF m_grads = "none" THEN "none" ELSE "zero"
    /\ l_pc' = "forward"
    /\ UNCHANGED <<m_training, m_params, m_buffers, o_steps, l_kind, l_loader,
                   l_index, l_batch, l_current_loss, l_current_acc, l_total,
                   l_hist, l_passes, bvars, nvars, xvars>>

\* outputs = model(inputs); _, predictions = torch.max(outputs, 1);
\* loss = loss_function(outputs, labels), under torch.set_grad_enabled(...).
\* The values come from the framework: any loss and any number of correct
\* predictions up to the batch size.
PassForward ==
    /\ l_pc = "forward"
    /\ \E loss \in 0..MaxLoss, correct \in 0..l_batch.size :
           l_batch' = [l_batch EXCEPT !.loss = loss, !.correct = correct,
                                      !.graph = GradMode(l_kind)]
    /\ m_buffers' = IF m_training THEN m_buffers + 1 ELSE m_buffers
    /\ l_pc' = AfterLoss(l_kind)
    /\ UNCHANGED <<m_training, m_params, m_grads, o_steps, l_kind, l_loader,
                   l_index, l_current_loss, l_current_acc, l_total, l_hist,
                   l_passes, bvars, nvars, xvars>>

\* loss.backward(): raises when the loss carries no graph
PassBackward ==
    /\ l_pc = "backward"
    /\ IF l_batch.graph
       THEN /\ m_grads' = "batch"
            /\ l_pc' = "step"
       ELSE /\ m_grads' = m_grads
            /\ l_pc' = "raised"
    /\ UNCHANGED <<m_training, m_params, m_buffers, o_steps, l_kind, l_loader,
                   l_index, l_batch, l_current_loss, l_current_acc, l_total,
                   l_hist, l_passes, bvars, nvars, xvars>>

\* optimizer.step(): parameters without a gradient are skipped
PassStep ==
    /\ l_pc = "step"
    /\ m_params' = IF m_grads = "none" THEN m_params ELSE m_params + 1
    /\ o_steps' = IF m_grads = "none" THEN o_steps ELSE o_steps + 1
    /\ l_batch' = [l_batch EXCEPT !.updates = @ + 1]
    /\ l_pc' = "stats"
    /\ UNCHANGED <<m_training, m_buffers, m_grads, l_kind, l_loader, l_index,
                   l_current_loss, l_current_acc, l_total, l_hist,
                   l_passes, bvars, nvars, xvars>>

\* the statistics of the batch
PassStats ==
    /\ l_pc = "stats"
    /\ l_current_loss' = AddLoss(l_current_loss, l_batch.loss, l_batch.size)
    /\ l_current_acc' = AddAcc(l_current_acc, l_batch.correct)
    /\ l_hist' = Append(l_hist, l_batch)
    /\ l_pc' = "fetch"
    /\ UNCHANGED <<m_training, m_params, m_buffers, m_grads, o_steps, l_kind,
                   l_loader, l_index, l_batch, l_total, l_passes, bvars, nvars, xvars>>

\* total_loss = current_loss / len(data_loader.dataset)
\* total_acc = current_acc.double() / len(data_loader.dataset)
\* The division raises on an empty dataset; current_acc is still the int 0,
\* which has no .double(), when the loop body never ran.
PassTotals ==
    /\ l_pc = "totals"
    /\ IF l_loader.dataset_len = 0 \/ l_index = 0
       THEN /\ l_total' = <<>>
            /\ l_pc' = "raised"
       ELSE /\ l_total' = <<[loss |-> l_current_loss, acc |-> l_current_acc,
                             den |-> l_loader.dataset_len]>>
            /\ l_pc' = "done"
    /\ UNCHANGED <<m_training, m_params, m_buffers, m_grads, o_steps, l_kind,
                   l_loader, l_index, l_batch, l_current_loss, l_current_acc,
                   l_hist, l_passes, bvars, nvars, xvars>>

\* the pass returns (or its exception leaves it): its locals are gone
PassReturn ==
    /\ l_pc \in {"done", "raised"}
    /\ l_pc' = "idle"
    /\ l_loader' = NoLoader
    /\ l_index' = 0
    /\ l_batch' = NoBatch
    /\ l_current_loss' = Unbound
    /\ l_current_acc' = Unbound
    /\ l_total' = <<>>
    /\ l_hist' = <<>>
    /\ UNCHANGED <<m_training, m_params, m_buffers, m_grads, o_steps, l_kind,
                   l_passes, bvars, nvars, xvars>>

LoopNext ==
    \/ PassCall \/ PassSetMode \/ PassInit \/ PassFetch \/ PassZeroGrad
    \/ PassForward \/ PassBackward \/ PassStep \/ PassStats \/ PassTotals
    \/ PassReturn

SpecLoop == LoopInit /\ [][LoopNext]_vars

\* the statements of a pass that has been called: the interpreter runs a called
\* function's next statement, nothing in the loop waits
PassRun ==
    \/ PassSetMode \/ PassInit \/ PassFetch \/ PassZeroGrad \/ PassForward
    \/ PassBackward \/ PassStep \/ PassStats \/ PassTotals

SpecLoopFair == LoopInit /\ [][LoopNext]_vars /\ WF_vars(PassRun)

\* ------------------------------------------------------------------ one group
\* _make_group on its own, for any int num_blocks
GroupInit ==
    /\ g_args \in [variant : Variants, in_slices : 1..MaxCh, slices : 1..MaxCh,
                    num_blocks : (0 - MaxNeg)..MaxBlocks, stride : 1..MaxStride]
    /\ g_out = <<>>
    /\ BlockUnused /\ NetUnused /\ LoopStart /\ ConcUnused /\ DriverUnused

GroupCall ==
    /\ g_out = <<>>
    /\ g_out' = <<MakeGroup(g_args.variant, g_args.in_slices, g_args.slices,
                            g_args.num_blocks, g_args.stride)>>
    /\ UNCHANGED <<g_args, bvars, nvars, lvars, cvars, dvars>>

GroupNext == GroupCall

SpecGroup == GroupInit /\ [][GroupNext]_vars

\* ------------------------------------------------------------------ two passes at once
\* train_model called twice, from two threads, with the same model and
\* optimizer. The passes interleave between statements; the locals of a pass
\* are its own, the parameters' .grad and the parameters are shared.
Passes == 1..2

Other(p) == 3 - p

Running(p) == c_pc[p] \notin {"idle", "done"}

\* a plausible slip: zero_grad() clears only what the calling pass accumulated
ZeroGradOwn(grads, p) == {g \in grads : g[1] # p}

\* optimizer.zero_grad(): the .grad of every parameter is cleared
ZeroGrad(grads, p) == {}

\* loss.backward(): the gradients of the batch are added to .grad
Backward(grads, p, i) == grads \cup {<<p, i>>}

ConcInit ==
    /\ c_pc = [p \in Passes |-> "idle"]
    /\ c_n \in [Passes -> 1..MaxConcBatches]
    /\ c_index = [p \in Passes |-> 0]
    /\ c_grads = {}
    /\ c_params = 0
    /\ c_last = <<>>
    /\ c_overlap = FALSE
    /\ BlockUnused /\ NetUnused /\ LoopStart /\ GroupUnused /\ DriverUnused

\* train_model(...) is called; model.train() and the accumulators of the pass
\* do not touch the gradients
ConcCall(p) ==
    /\ c_pc[p] = "idle"
    /\ c_pc' = [c_pc EXCEPT ![p] = "fetch"]
    /\ c_overlap' = (c_overlap \/ Running(Other(p)))
    /\ UNCHANGED <<c_n, c_index, c_grads, c_params, c_last,
                   bvars, nvars, lvars, gvars, dvars>>

\* for i, (inputs, labels) in enumerate(data_loader)
ConcFetch(p) ==
    /\ c_pc[p] = "fetch"
    /\ IF c_index[p] < c_n[p]
       THEN /\ c_index' = [c_index EXCEPT ![p] = NextIndex(c_index[p])]
            /\ c_pc' = [c_pc EXCEPT ![p] = AfterFetch("train")]
       ELSE /\ c_pc' = [c_pc EXCEPT ![p] = "done"]
            /\ UNCHANGED c_index
    /\ UNCHANGED <<c_n, c_grads, c_params, c_last, c_overlap,
                   bvars, nvars, lvars, gvars, dvars>>

\* optimizer.zero_grad()
ConcZeroGrad(p) ==
    /\ c_pc[p] = "zero_grad"
    /\ c_grads' = ZeroGrad(c_grads, p)
    /\ c_pc' = [c_pc EXCEPT ![p] = "forward"]
    /\ UNCHANGED <<c_n, c_index, c_params, c_last, c_overlap,
                   bvars, nvars, lvars, gvars, dvars>>

\* outputs = model(inputs); loss = loss_function(outputs, labels)
ConcForward(p) ==
    /\ c_pc[p] = "forward"
    /\ c_pc' = [c_pc EXCEPT ![p] = AfterLoss("train")]
    /\ UNCHANGED <<c_n, c_index, c_grads, c_params, c_last, c_overlap,
                   bvars, nvars, lvars, gvars, dvars>>

\* loss.backward()
ConcBackward(p) ==
    /\ c_pc[p] = "backward"
    /\ c_grads' = Backward(c_grads, p, c_index[p])
    /\ c_pc' = [c_pc EXCEPT ![p] = "step"]
    /\ UNCHANGED <<c_n, c_index, c_params, c_last, c_overlap,
                   bvars, nvars, lvars, gvars, dvars>>

\* optimizer.step(): the update uses whatever .grad holds now
ConcStep(p) ==
    /\ c_pc[p] = "step"
    /\ c_params' = c_params + 1
    /\ c_last' = <<[by |-> p, batch |-> c_index[p], grads |-> c_grads]>>
    /\ c_pc' = [c_pc EXCEPT ![p] = "stats"]
    /\ UNCHANGED <<c_n, c_index, c_grads, c_overlap,
                   bvars, nvars, lvars, gvars, dvars>>

\* the statistics of the batch: locals of the pass
ConcStats(p) ==
    /\ c_pc[p] = "stats"
    /\ c_pc' = [c_pc EXCEPT ![p] = "fetch"]
    /\ UNCHANGED <<c_n, c_index, c_grads, c_params, c_last, c_overlap,
                   bvars, nvars, lvars, gvars, dvars>>

\* the next statement of pass p
ConcStatement(p) ==
    \/ ConcFetch(p) \/ ConcZeroGrad(p) \/ ConcForward(p) \/ ConcBackward(p)
    \/ ConcStep(p) \/ ConcStats(p)

ConcNext ==
    \/ \E p \in Passes : ConcCall(p)
    \/ \E p \in Passes : ConcFetch(p)
    \/ \E p \in Passes : ConcZeroGrad(p)
    \/ \E p \in Passes : ConcForward(p)
    \/ \E p \in Passes : ConcBackward(p)
    \/ \E p \in Passes : ConcStep(p)
    \/ \E p \in Passes : ConcStats(p)

SpecConc == ConcInit /\ [][ConcNext]_vars

\* ------------------------------------------------------------------ the epoch loop
\* train_loader and test_loader: fixed, not empty, drop_last left at False
TrainLoader == [dataset_len |-> MaxData, batch_size |-> MaxBatch, drop_last |-> FALSE]

TestLoader == [dataset_len |-> MaxData, batch_size |-> MaxBatch, drop_last |-> FALSE]

\* a plausible slip: the loop runs once more than range(EPOCHS) allows
RangeHasNextInclusive(i, n) == i <= n

\* range(n) has a next value after yielding i values
RangeHasNext(i, n) == i < n

DriverInit ==
    /\ LoopStart
    /\ d_pc = "for"
    /\ d_epoch = 0
    /\ test_acc = <<>>
    /\ d_log = <<>>
    /\ d_plotted = <<>>
    /\ BlockUnused /\ NetUnused /\ GroupUnused /\ ConcUnused

\* for epoch in range(EPOCHS): d_epoch counts the values yielded so far
DriverFor ==
    /\ d_pc = "for"
    /\ IF RangeHasNext(d_epoch, EPOCHS)
       THEN d_epoch' = d_epoch + 1 /\ d_pc' = "call_train"
       ELSE d_epoch' = d_epoch /\ d_pc' = "plot"
    /\ UNCHANGED <<test_acc, d_log, d_plotted, lvars, bvars, nvars, gvars, cvars>>

\* a pass is entered with its data_loader bound
DriverEnter(kind, loader) ==
    /\ l_pc = "idle"
    /\ l_kind' = kind
    /\ l_loader' = loader
    /\ l_pc' = "mode"
    /\ d_log' = Append(d_log, kind)
    /\ UNCHANGED <<m_training, m_params, m_buffers, m_grads, o_steps, l_index,
                   l_batch, l_current_loss, l_current_acc, l_total, l_hist,
                   l_passes, d_epoch, d_plotted, bvars, nvars, gvars, cvars>>

\* the pass returns to the loop: its locals are gone
DriverLeave ==
    /\ l_pc = "done"
    /\ l_pc' = "idle"
    /\ l_loader' = NoLoader
    /\ l_index' = 0
    /\ l_batch' = NoBatch
    /\ l_current_loss' = Unbound
    /\ l_current_acc' = Unbound
    /\ l_total' = <<>>
    /\ l_hist' = <<>>
    /\ UNCHANGED <<m_training, m_params, m_buffers, m_grads, o_steps, l_kind,
                   l_passes, d_epoch, d_log, d_plotted, bvars, nvars, gvars,
                   cvars>>

\* train_model(model, loss_function, optimizer, train_loader)
DriverCallTrain ==
    /\ d_pc = "call_train"
    /\ DriverEnter("train", TrainLoader)
    /\ d_pc' = "in_train"
    /\ UNCHANGED test_acc

DriverTrainReturn ==
    /\ d_pc = "in_train"
    /\ DriverLeave
    /\ d_pc' = "call_test"
    /\ UNCHANGED test_acc

\* _, acc = test_model(model, loss_function, test_loader)
DriverCallTest ==
    /\ d_pc = "call_test"
    /\ DriverEnter("test", TestLoader)
    /\ d_pc' = "in_test"
    /\ UNCHANGED test_acc

\* test_model returns total_acc and test_acc.append(acc) stores it
DriverTestReturn ==
    /\ d_pc = "in_test"
    /\ DriverLeave
    /\ test_acc' = Append(test_acc, [acc |-> l_total[1].acc, den |-> l_total[1].den])
    /\ d_pc' = "for"

\* plot_accuracy(test_acc)
DriverPlot ==
    /\ d_pc = "plot"
    /\ d_plotted' = <<test_acc>>
    /\ d_pc' = "end"
    /\ UNCHANGED <<d_epoch, test_acc, d_log, lvars, bvars, nvars, gvars, cvars>>

DriverNext ==
    \/ DriverFor \/ DriverCallTrain \/ DriverTrainReturn \/ DriverCallTest
    \/ DriverTestReturn \/ DriverPlot
    \/ PassSetMode \/ PassInit \/ PassFetch \/ PassZeroGrad \/ PassForward
    \/ PassBackward \/ PassStep \/ PassStats \/ PassTotals

SpecDriver == DriverInit /\ [][DriverNext]_vars

\* ------------------------------------------------------------------ claims
CeilDiv(a, d) == (a + d - 1) \div d

BlockDone == b_obj # <<>> /\ b_out # <<>>

BlockInputValid == b_x.c = b_args.in_slices /\ ~b_training

\* C1 as stated: for stride 1 or 2 a block's output side is the input side
\* integer-divided by the stride, and its channel count is slices * expansion.
C1_OutputFloorDiv ==
    (BlockDone /\ b_args.stride \in {1, 2} /\ b_out[1].ok) =>
        /\ b_out[1].h = b_x.h \div b_args.stride
        /\ b_out[1].w = b_x.w \div b_args.stride
        /\ b_out[1].c = b_args.slices * Expansion(b_args.variant)

\* C1 amended: for stride 1 or 2 the output side is the input side divided by
\* the stride rounded UP (which is the integer quotient whenever the stride
\* divides the side), the channel count is slices * expansion, the batch
\* dimension is kept, and a block in evaluation mode accepts every input
\* whose channel count is in_slices.
C1_OutputCeilDiv ==
    (BlockDone /\ b_args.stride \in {1, 2}) =>
        /\ BlockInputValid => b_out[1].ok
        /\ b_out[1].ok =>
            /\ b_out[1].h = CeilDiv(b_x.h, b_args.stride)
            /\ b_out[1].w = CeilDiv(b_x.w, b_args.stride)
            /\ b_x.h % b_args.stride = 0 => b_out[1].h = b_x.h \div b_args.stride
            /\ b_x.w % b_args.stride = 0 => b_out[1].w = b_x.w \div b_args.stride
            /\ b_out[1].c = b_args.slices * Expansion(b_args.variant)
            /\ b_out[1].n = b_x.n

C1_Witness ==
    /\ BlockDone /\ b_out[1].ok
    /\ b_args.variant = "PreActivationBottleneckBlock"
    /\ b_args.stride = 2 /\ b_x.h = 5 /\ b_out[1].h = 3
    /\ b_out[1].c = 4 * b_args.slices

\* C2: the shortcut is the identity on the block's input exactly when
\* stride = 1 and in_slices = slices * expansion; in every other case the
\* block carries a 1x1 projection (in_slices -> slices * expansion, the
\* block's stride, no padding) and the shortcut is that projection's output.
C2_ShortcutPolicy ==
    b_obj # <<>> =>
        LET b == b_obj[1]
            identity == b_args.stride = 1
                        /\ b_args.in_slices = b_args.slices * Expansion(b_args.variant)
        IN  /\ identity <=> ~HasAttr(b, "shortcut")
            /\ ~identity =>
                /\ HasAttr(b, "shortcut")
                /\ Len(b.shortcut) = 1
                /\ b.shortcut[1] = Conv2d(b_args.in_slices,
                                          b_args.slices * Expansion(b_args.variant),
                                          1, b_args.stride, 0)
            /\ (b_cut # <<>> /\ b_cut[1].ok) =>
                /\ identity => b_cut[1] = b_x
                /\ ~identity =>
                    b_cut[1] = Shape(b_x.n, b_args.slices * Expansion(b_args.variant),
                                     CeilDiv(b_x.h, b_args.stride),
                                     CeilDiv(b_x.w, b_args.stride))

C2_Witness ==
    /\ BlockDone /\ b_out[1].ok
    /\ b_args.stride = 1
    /\ b_args.in_slices # b_args.slices * Expansion(b_args.variant)
    /\ HasAttr(b_obj[1], "shortcut")
    /\ b_cut[1].c # b_x.c

\* ---- the network
\* the blocks of layer_1, layer_2, ... in the order of their construction
RECURSIVE AllBlocks(_)
AllBlocks(layers) ==
    IF layers = <<>> THEN <<>> ELSE Head(layers) \o AllBlocks(Tail(layers))

\* the channel count a block puts out: the out_channels of its last convolution
OutChannels(b) ==
    IF b.variant = "PreActivationBlock" THEN b.conv_2.out_channels
    ELSE b.conv_3.out_channels

\* C3 as stated: a num_blocks whose length is not 4 never yields a network;
\* the constructor raises instead.
C3_LengthNot4Raises == n_pc = "built" => Len(n_args.num_blocks) = 4

\* C5: each of the five named configurations is constructed without an error,
\* and its forward pass on an input (n, 3, 32, 32) raises at no layer and ends
\* with an output of shape (n, class count).
C5_PresetsAccept32 ==
    n_args \in Presets =>
        /\ n_pc # "raised"
        /\ (f_pc # "idle" /\ f_x.h = 32 /\ f_x.w = 32) =>
            /\ f_pc # "raised"
            /\ Len(f_outs) = 8 <=> f_pc = "done"
            /\ f_pc = "done" => f_outs[8] = Shape2(f_x.n, NumClasses)

C5_Witness ==
    /\ n_args = PreActivationResNet152
    /\ f_pc = "done" /\ f_training
    /\ f_x = Shape(MaxN, 3, 32, 32)
    /\ f_outs[8] = Shape2(MaxN, NumClasses)

\* C7: self.in_slices is 64 (the width of the stem) before the first group;
\* every block is created with in_slices equal to the channel count put out
\* by the block, or the stem, created just before it; after the fourth group
\* self.in_slices is 512 * expansion, the in_features of self.linear.
C7_ChannelChain ==
    (n_pc \in {"groups", "built"}
     /\ \A i \in 1..Len(n_args.num_blocks) : n_args.num_blocks[i] >= 1) =>
        LET blocks == AllBlocks(n_layers)
        IN  /\ n_layers = <<>> => n_in_slices = 64
            /\ n_conv_1[1].out_channels = 64
            /\ \A i \in 1..Len(blocks) :
                   /\ blocks[i].bn_1 = blocks[i].in_slices
                   /\ blocks[i].conv_1.in_channels = blocks[i].in_slices
                   /\ blocks[i].in_slices =
                          IF i = 1 THEN n_conv_1[1].out_channels
                          ELSE OutChannels(blocks[i - 1])
            /\ blocks # <<>> => n_in_slices = OutChannels(blocks[Len(blocks)])
            /\ Len(n_layers) = 4 => n_in_slices = 512 * Expansion(n_args.block)
            /\ n_pc = "built" => n_linear[1].in_features = n_in_slices

C7_Witness ==
    /\ n_pc = "built"
    /\ n_args.block = "PreActivationBottleneckBlock"
    /\ n_args.num_blocks = <<MaxBlocks, 1, MaxBlocks, 1>>
    /\ n_in_slices = 2048
    /\ AllBlocks(n_layers)[MaxBlocks + 1].in_slices = 256

\* C8 as stated: the pooling after the four groups is global, that is, its
\* window covers the whole feature map of every input the network accepts,
\* and the flattened vector has 512 * expansion entries.
C8_PoolingIsGlobal ==
    f_pc = "done" =>
        /\ f_outs[5].h = PoolKernel /\ f_outs[5].w = PoolKernel
        /\ f_outs[6].h = 1 /\ f_outs[6].w = 1
        /\ f_outs[7].c = 512 * Expansion(n_args.block)

\* C8 amended: the pooling after the four groups has a fixed 4x4 window (and
\* stride 4).  A square input (n, 3, h, h) is accepted exactly when
\* 25 <= h <= 56, the final feature map then has side 4 to 7, the pooled map
\* is 1x1 per channel and the flattened vector has 512 * expansion entries;
\* the window covers the whole feature map, i.e. the pooling is global,
\* exactly when that map is 4x4, i.e. when 25 <= h <= 32.
C8_FixedWindowPooling ==
    /\ f_pc \in {"done", "raised"} => (f_pc = "done" <=> f_x.h \in 25..56)
    /\ f_pc = "done" =>
        /\ f_outs[5].h \in 4..7 /\ f_outs[5].w = f_outs[5].h
        /\ f_outs[5].c = 512 * Expansion(n_args.block)
        /\ f_outs[6] = Shape(f_x.n, 512 * Expansion(n_args.block), 1, 1)
        /\ f_outs[7] = Shape2(f_x.n, 512 * Expansion(n_args.block))
        /\ f_outs[7].c = n_linear[1].in_features
        /\ f_outs[5].h = PoolKernel <=> f_x.h \in 25..32

C8_Witness ==
    /\ f_pc = "done"
    /\ f_x.h = 33
    /\ f_outs[5].h = 5
    /\ f_outs[6].h = 1
    /\ f_outs[7].c = 2048

\* ---- the passes
\* over the batches a pass has gone through: the samples, the per-batch mean
\* losses weighted by the batch sizes, and the correct predictions
RECURSIVE SumSize(_)
SumSize(hist) == IF hist = <<>> THEN 0 ELSE Head(hist).size + SumSize(Tail(hist))

RECURSIVE SumLoss(_)
SumLoss(hist) ==
    IF hist = <<>> THEN 0
    ELSE Head(hist).loss * Head(hist).size + SumLoss(Tail(hist))

RECURSIVE SumCorrect(_)
SumCorrect(hist) ==
    IF hist = <<>> THEN 0 ELSE Head(hist).correct + SumCorrect(Tail(hist))

\* the ratios a/b and c/d are the same number (b, d > 0)
SameRatio(a, b, c, d) == a * d = c * b

\* C4 as stated: a pass finalizes mean loss as (sum L_i N_i) / (sum N_i) and
\* accuracy as (sum c_i) / (sum N_i): the divisor is the number of samples the
\* pass has processed.
C4_DivisorIsSamplesProcessed ==
    l_pc = "done" =>
        /\ l_total[1].den = SumSize(l_hist)
        /\ SameRatio(l_total[1].loss, l_total[1].den, SumLoss(l_hist), SumSize(l_hist))
        /\ SameRatio(l_total[1].acc, l_total[1].den, SumCorrect(l_hist), SumSize(l_hist))

\* C4 amended: a pass over at least one batch finalizes mean loss as
\* (sum L_i N_i) / D and accuracy as (sum c_i) / D, where D is
\* len(data_loader.dataset); these are the means over the samples processed
\* when the batches cover the dataset exactly once (sum N_i = D), which every
\* loader that does not drop its last batch does.  A pass over no batch
\* raises instead of finalizing.
C4_DivisorIsDatasetLen ==
    /\ l_pc = "done" =>
        /\ l_hist # <<>>
        /\ Len(l_hist) = NumBatches(l_loader)
        /\ l_total[1].loss = SumLoss(l_hist)
        /\ l_total[1].acc = SumCorrect(l_hist)
        /\ l_total[1].den = l_loader.dataset_len
        /\ ~l_loader.drop_last => SumSize(l_hist) = l_loader.dataset_len
        /\ SumSize(l_hist) = l_loader.dataset_len =>
            /\ SameRatio(l_total[1].loss, l_total[1].den,
                         SumLoss(l_hist), SumSize(l_hist))
            /\ SameRatio(l_total[1].acc, l_total[1].den,
                         SumCorrect(l_hist), SumSize(l_hist))
    /\ l_pc = "raised" => l_hist = <<>>

C4_Witness ==
    /\ l_pc = "done"
    /\ Len(l_hist) = 2
    /\ l_hist[1].size # l_hist[2].size
    /\ l_hist[1].loss # l_hist[2].loss
    /\ l_total[1].loss > 0
    /\ l_total[1].acc > 0
    /\ l_total[1].den = SumSize(l_hist)

\* C6: an evaluate pass never reaches loss.backward() or optimizer.step() and
\* builds no graph to differentiate; every step of it leaves the parameters,
\* their gradients and the optimizer's state as they were; over any sequence
\* of passes the parameters and the optimizer's state change only in the
\* optimizer.step() of a train pass.
C6_Inv ==
    (l_kind = "test" /\ l_pc # "idle") =>
        /\ l_pc \notin {"zero_grad", "backward", "step"}
        /\ ~l_batch.graph

C6_Step ==
    /\ (l_kind = "test" /\ l_pc # "idle") =>
           /\ m_params' = m_params
           /\ o_steps' = o_steps
           /\ m_grads' = m_grads
    /\ (m_params' # m_params \/ o_steps' # o_steps) =>
           l_kind = "train" /\ l_pc = "step"

C6_EvaluateLeavesModelAlone == [](C6_Inv) /\ [][C6_Step]_vars

C6_Witness ==
    /\ l_kind = "test"
    /\ l_pc = "done"
    /\ Len(l_hist) >= 2
    /\ m_params >= 2
    /\ o_steps = m_params

\* C9: the accumulators are scoped to one pass: when a pass enters its loop
\* both are zero, at every later point of the pass they are the sums over the
\* batches of this pass alone, and so are the totals it finalizes.
C9_AccumulatorsScoped ==
    /\ (l_pc = "fetch" /\ l_index = 0) =>
           l_current_loss = 0 /\ l_current_acc = 0
    /\ l_pc \in {"fetch", "zero_grad", "forward", "backward", "step", "stats",
                 "totals", "done"} =>
           /\ l_current_loss = SumLoss(l_hist)
           /\ l_current_acc = SumCorrect(l_hist)
           /\ Len(l_hist) = (IF l_pc \in {"fetch", "totals", "done"}
                             THEN l_index ELSE l_index - 1)
    /\ l_pc = "done" =>
           /\ l_total[1].loss = SumLoss(l_hist)
           /\ l_total[1].acc = SumCorrect(l_hist)

C9_Witness ==
    /\ l_passes = 2
    /\ l_pc = "fetch" /\ l_index = 0
    /\ l_current_loss = 0 /\ l_current_acc = 0
    /\ m_params >= 1

\* ---- the order of a train pass
\* the successive statements of train_model's loop
TrainOrder ==
    {<<"fetch", "zero_grad">>, <<"fetch", "totals">>, <<"zero_grad", "forward">>,
     <<"forward", "backward">>, <<"backward", "step">>, <<"step", "stats">>,
     <<"stats", "fetch">>}

C11_Inv ==
    l_kind = "train" =>
        /\ l_pc = "step" =>
               m_grads = "batch" /\ l_batch.graph /\ l_batch.updates = 0
        /\ l_pc = "stats" => l_batch.updates = 1
        /\ l_pc \in {"fetch", "zero_grad", "forward", "backward", "step", "stats",
                     "totals", "done"} =>
               \A i \in 1..Len(l_hist) : l_hist[i].updates = 1
        /\ l_pc \in {"totals", "done"} => Len(l_hist) = NumBatches(l_loader)

C11_Step ==
    /\ (l_kind = "train" /\ l_pc' # l_pc
        /\ l_pc \in {"fetch", "zero_grad", "forward", "backward", "step", "stats"}) =>
           <<l_pc, l_pc'>> \in TrainOrder
    /\ (o_steps' # o_steps \/ m_params' # m_params) =>
           /\ l_pc = "step" /\ l_pc' = "stats"
           /\ m_grads = "batch"
           /\ o_steps' = o_steps + 1 /\ m_params' = m_params + 1
    /\ (m_grads' # m_grads /\ m_grads' # "batch") => l_pc = "zero_grad"

\* C11: in a train pass every batch goes through zero_grad, forward and loss,
\* backward, step, statistics, in that order; the update is applied once per
\* batch, with the gradients of that batch's backward (nothing clears them in
\* between), so a pass over k batches performs k updates.
C11_TrainBatchOrder == [](C11_Inv) /\ [][C11_Step]_vars

C11_Witness ==
    /\ l_kind = "train" /\ l_pc = "done"
    /\ Len(l_hist) = 2
    /\ l_hist[1].updates = 1 /\ l_hist[2].updates = 1
    /\ o_steps = 2 /\ m_params = 2

\* ---- the mode of the model during a pass
C17_Inv ==
    /\ l_pc \in {"init", "fetch", "zero_grad", "forward", "backward", "step",
                 "stats", "totals", "done"} =>
           m_training = (l_kind = "train")
    /\ l_pc = "step" => m_training
    /\ (l_kind = "test" /\ l_pc = "forward") => ~m_training

C17_Step ==
    /\ (o_steps' # o_steps \/ m_params' # m_params) => m_training /\ m_training'
    /\ m_training' # m_training => l_pc = "mode" /\ l_pc' = "init"
    /\ (l_pc = "mode" /\ l_pc' # "mode") =>
           l_pc' = "init" /\ m_training' = (l_kind = "train")

\* C17: every optimizer update happens while the model is in training mode
\* and every forward pass of an evaluate pass happens in evaluation mode,
\* because each pass sets the mode itself before it touches its first batch.
C17_ModeSetByPass == [](C17_Inv) /\ [][C17_Step]_vars

C17_Witness ==
    /\ l_kind = "test" /\ l_pc = "forward" /\ ~m_training
    /\ o_steps > 0
    /\ l_passes = 2

\* ---- the running count of correct predictions
C19_Inv ==
    /\ l_current_acc # Unbound =>
           /\ 0 <= l_current_acc
           /\ l_current_acc <= SumSize(l_hist)
           /\ l_current_acc = SumCorrect(l_hist)
    /\ (l_total # <<>> /\ SumSize(l_hist) <= l_total[1].den) =>
           0 <= l_total[1].acc /\ l_total[1].acc <= l_total[1].den

C19_Step ==
    (l_current_acc # Unbound /\ l_current_acc' # Unbound) =>
        l_current_acc' >= l_current_acc

\* C19: within a pass the count of correct predictions is at least 0, at most
\* the number of samples processed so far, and never decreases; the accuracy
\* of the pass (count over divisor) is in [0,1] whenever the samples processed
\* do not exceed the dataset size used as the divisor.
C19_CorrectCountBounded == [](C19_Inv) /\ [][C19_Step]_vars

C19_Witness ==
    /\ l_pc = "done" /\ Len(l_hist) = 2
    /\ l_total[1].acc >= 2
    /\ l_total[1].acc < l_total[1].den
    /\ l_hist[1].correct >= 1 /\ l_hist[2].correct >= 1

\* ---- the two operands of the addition
\* C13: for both block variants, every in_slices, slices and stride >= 1 and
\* every input side >= 1, odd or even, the main-path tensor and the shortcut
\* tensor have the same channel count and the same spatial size when the
\* addition is reached, so the addition never raises on a shape mismatch.
C13_AddOperandsAgree ==
    BlockDone =>
        LET b == b_obj[1]
            main == MainPath(b, b_x, b_training)
            cut == b_cut[1]
        IN  /\ (main.ok /\ cut.ok) =>
                /\ main.c = cut.c /\ main.h = cut.h /\ main.w = cut.w
                /\ main.n = cut.n
                /\ main.c = b.expansion * b.slices
                /\ b_out[1] = main
            /\ b_out[1].ok <=> (main.ok /\ cut.ok)
            /\ BlockInputValid => b_out[1].ok

C13_Witness ==
    /\ BlockDone /\ BlockInputValid
    /\ b_args.variant = "PreActivationBottleneckBlock"
    /\ b_args.stride = MaxStride
    /\ b_x.h = MaxSide /\ b_x.w = 1
    /\ b_out[1].ok
    /\ b_out[1].c # b_x.c
    /\ b_out[1].h = b_cut[1].h /\ b_out[1].h < b_x.h

\* ---- what the shortcut reads
\* the number of invocations of a layer in a forward
Count(calls, name) == Cardinality({i \in 1..Len(calls) : calls[i] = name})

\* the last n entries of a chain
Suffix(chain, n) == SubSeq(chain, Len(chain) - n + 1, Len(chain))

\* C14: in both block variants the first batch norm + ReLU is computed once
\* and its result feeds the main path and, when there is a projection, the
\* projection; without a projection the shortcut is the raw block input, not
\* the normalized and activated tensor; the value returned is the main-path
\* output plus that shortcut.
C14_FirstActivationShared ==
    (BlockDone /\ b_flow # <<>>) =>
        LET b == b_obj[1]
            flow == b_flow[1]
        IN  /\ Count(flow.calls, "bn_1") = 1
            /\ flow.first = <<"relu", "bn_1", "x">>
            /\ Suffix(flow.main, 4) = <<"conv_1">> \o flow.first
            /\ IF NeedsShortcut(b.expansion, b.in_slices, b.slices, b.stride)
               THEN /\ flow.shortcut = <<"shortcut">> \o flow.first
                    /\ Count(flow.calls, "shortcut") = 1
               ELSE /\ flow.shortcut = <<"x">>
                    /\ Count(flow.calls, "shortcut") = 0
            /\ flow.out = [op |-> "add", left |-> flow.main,
                           right |-> flow.shortcut]
            /\ Head(flow.main) = (IF b.variant = "PreActivationBlock"
                                  THEN "conv_2" ELSE "conv_3")

C14_Witness ==
    /\ BlockDone /\ b_flow # <<>>
    /\ b_training
    /\ b_args.variant = "PreActivationBlock"
    /\ b_args.stride = 1 /\ b_args.in_slices # b_args.slices
    /\ b_flow[1].shortcut = <<"shortcut", "relu", "bn_1", "x">>
    /\ b_flow[1].out.right = b_flow[1].shortcut

\* ---- a pass runs over the whole iterator
InPass == l_pc \in {"fetch", "zero_grad", "forward", "backward", "step", "stats",
                    "totals", "done"}

C15_Inv ==
    /\ InPass =>
           /\ \A i \in 1..Len(l_hist) :
                  /\ l_hist[i].index = i
                  /\ l_hist[i].size = BatchLen(l_loader, i)
           /\ Len(l_hist) <= NumBatches(l_loader)
           /\ l_index \in {Len(l_hist), Len(l_hist) + 1}
    /\ l_pc \in {"zero_grad", "forward", "backward", "step", "stats"} =>
           l_batch.index = Len(l_hist) + 1
    /\ l_pc \in {"totals", "done"} => Len(l_hist) = NumBatches(l_loader)
    /\ l_pc = "done" => l_total # <<>>
    /\ l_pc = "raised" => l_total = <<>>

C15_Step ==
    /\ (InPass /\ l_hist' # l_hist) =>
           \/ l_pc = "stats" /\ l_hist' = Append(l_hist, l_batch)
           \/ l_pc = "done" /\ l_pc' = "idle"
    /\ (l_pc = "raised" /\ l_pc' # "raised") => l_pc' = "idle"

\* C15: over a finite iterator a train pass and an evaluate pass terminate:
\* the pass processes every batch exactly once, in iterator order, and then
\* computes its totals, or it stops at the first error; no batch is retried,
\* skipped or processed twice, and a pass never ends early without an error.
C15_PassTerminates ==
    /\ [](C15_Inv)
    /\ [][C15_Step]_vars
    /\ (l_pc = "mode") ~> (l_pc \in {"done", "raised"})

C15_Witness ==
    /\ l_pc = "done" /\ l_kind = "test"
    /\ NumBatches(l_loader) = MaxData
    /\ Len(l_hist) = MaxData
    /\ l_hist[MaxData].index = MaxData

\* ---- the size of a group
Max(a, b) == IF a >= b THEN a ELSE b

OwnGrads(step) == {<<step.by, step.batch>>}

C12_Inv ==
    /\ \A p \in Passes : Running(p) => ENABLED ConcStatement(p)
    /\ \A p \in Passes : c_pc[p] = "idle" => ENABLED ConcCall(p)
    /\ (c_last # <<>> /\ c_last[1].grads # OwnGrads(c_last[1])) => c_overlap

C12_Step ==
    \A p \in Passes :
        /\ (c_pc[p] = "zero_grad" /\ c_pc'[p] = "forward") => c_grads' = {}
        /\ (c_pc[p] = "backward" /\ c_pc'[p] = "step") =>
               /\ c_grads \subseteq c_grads'
               /\ <<p, c_index[p]>> \in c_grads'
        /\ (c_pc[p] = "step" /\ c_pc'[p] = "stats") =>
               /\ c_last' = <<[by |-> p, batch |-> c_index[p], grads |-> c_grads]>>
               /\ c_params' = c_params + 1

\* C12: two train passes running at once on the same model and optimizer are
\* not safe. Nothing in train_model makes one wait for the other: each can
\* always run its next statement; zero_grad clears the shared gradients
\* whoever accumulated them, backward accumulates into them, and step applies
\* whatever they hold. An update with gradients other than those of its own
\* batch occurs only when the passes overlap, and then it does occur.
C12_ConcurrentPassesUnsafe == [](C12_Inv) /\ [][C12_Step]_vars

\* pass 2 cleared the gradients between pass 1's backward and its step
C12_Witness ==
    /\ c_overlap
    /\ c_last # <<>>
    /\ c_last[1].by = 1
    /\ c_last[1].grads = {}
    /\ c_pc[2] = "forward"
    /\ c_pc[1] = "stats"

\* ---- the order of the passes in the epoch loop
C16_Inv ==
    /\ \A i \in 1..Len(d_log) : d_log[i] = (IF i % 2 = 1 THEN "train" ELSE "test")
    /\ l_pc # "idle" =>
           /\ d_pc \in {"in_train", "in_test"}
           /\ l_kind = (IF d_pc = "in_train" THEN "train" ELSE "test")
           /\ l_kind = d_log[Len(d_log)]
    /\ d_pc \notin {"in_train", "in_test"} => l_pc = "idle"
    /\ d_pc \in {"call_test", "in_test"} =>
           /\ o_steps = NumBatches(TrainLoader) * d_epoch
           /\ Len(d_log) = 2 * d_epoch - (IF d_pc = "call_test" THEN 1 ELSE 0)
           /\ Len(test_acc) = d_epoch - 1
    /\ d_pc \in {"call_train", "in_train"} =>
           /\ o_steps <= NumBatches(TrainLoader) * d_epoch
           /\ Len(test_acc) = d_epoch - 1
    /\ d_pc \in {"for", "plot", "end"} =>
           /\ Len(test_acc) = d_epoch
           /\ Len(d_log) = 2 * d_epoch
    /\ d_pc \in {"plot", "end"} => d_epoch = EPOCHS
    /\ d_plotted # <<>> =>
           /\ d_plotted[1] = test_acc
           /\ Len(d_plotted[1]) = EPOCHS

C16_Step ==
    /\ test_acc' # test_acc =>
           /\ d_pc = "in_test" /\ l_pc = "done"
           /\ Len(test_acc') = Len(test_acc) + 1
           /\ SubSeq(test_acc', 1, Len(test_acc)) = test_acc
           /\ test_acc'[Len(test_acc')].acc = l_total[1].acc
    /\ d_log' # d_log => l_pc = "idle" /\ l_pc' = "mode"
    /\ (d_log' # d_log /\ l_kind' = "test") =>
           /\ d_log[Len(d_log)] = "train"
           /\ o_steps = NumBatches(TrainLoader) * d_epoch

\* C16: in the epoch loop the passes alternate train, evaluate, train, ...,
\* with at most one pass active at a time; an epoch's evaluate pass starts
\* only after that epoch's train pass has finished; one accuracy is appended
\* per epoch, in epoch order; the sequence handed to plot_accuracy has
\* EPOCHS entries.
C16_EpochsAlternate == [](C16_Inv) /\ [][C16_Step]_vars

C16_Witness ==
    /\ d_pc = "end"
    /\ d_plotted # <<>>
    /\ Len(d_plotted[1]) = EPOCHS
    /\ d_plotted[1][1].acc < d_plotted[1][EPOCHS].acc
    /\ Len(d_log) = 2 * EPOCHS

====
